---- MODULE Spec2Model ----
(***************************************************************************)
(* Fleet orchestration of Redfish event subscriptions                      *)
(* (redfish-exporter/redfish_utils.go).                                    *)
(*                                                                         *)
(* CreateSubscriptionsForAllServers starts one goroutine per server; each  *)
(* runs createSubscription and either sends an error on errChan or writes  *)
(* subscriptionMap under mu.  After wg.Wait() the errors are collected; if *)
(* there is any, DeleteSubscriptionsFromAllServers is run over the map.    *)
(*                                                                         *)
(* The controllers (gofish) are the environment: a set of endpoints, each  *)
(* holding a set of active subscriptions.  Every remote call may fail.     *)
(* `calls' is the log of remote calls made, kept as a bag.                 *)
(***************************************************************************)
EXTENDS Integers, Sequences, FiniteSets, Bags, TLC

\* Longest server list examined.
MaxServers == 3

\* Network addresses of the controllers that exist (RedfishServer.IP).
Addrs == 1..MaxServers

\* IP of the zero value RedfishServer{} that getServerInfo returns on a miss.
NoAddr == 0

\* The payload handed to every server (only the fields the code reads to
\* decide anything, plus Context, which it must not read for matching).
subscriptionPayload == [Destination |-> "hook", Context |-> "new"]

\* Subscriptions a controller may hold before the operation starts: one with
\* the payload's destination (and another context), one with another
\* destination (and the payload's context).
PreSubs == { [ODataID |-> 1, Destination |-> "hook",  Context |-> "old"],
             [ODataID |-> 2, Destination |-> "other", Context |-> "new"] }

\* What a controller holds at the start: the subscription with the other
\* destination, and possibly the one with the payload's destination.
Holdings == { S \in SUBSET PreSubs : \E s \in S : s.ODataID = 2 }

PreIds == { s.ODataID : s \in PreSubs }

\* The identifier a controller assigns to the subscription created by worker
\* i: one not in use, and different for every create call.
NewId(i) == Cardinality(PreSubs) + i

NoId == 0

VARIABLES
    redfishServers,   \* input list: the IP of each descriptor
    subs,             \* subs[a]: active subscriptions on controller a
    calls,            \* bag of remote calls made so far
    pc,               \* position of the orchestrator
    wpc,              \* wpc[i]: position of create worker i
    todo,             \* todo[i]: conflicting subscriptions still to delete
    cleanupErr,       \* value returned by deleteConflictingSubscriptions
    uri,              \* subscriptionURI of worker i
    err,              \* err of worker i ("" is nil)
    wg,               \* WaitGroup counter of the create phase
    mu,               \* holder of the mutex, 0 when free
    subscriptionMap,  \* the result map (a function on the keys written)
    errChan,          \* buffered channel of errors
    allErrors,        \* errors drained from errChan
    ret,              \* value returned by CreateSubscriptionsForAllServers
    callNo,           \* which call of DeleteSubscriptionsFromAllServers runs
    rpc,              \* rpc[k]: position of the delete worker for map key k
    rres,             \* rres[k]: the error the delete worker for key k logged
    rwg,              \* WaitGroup counter of DeleteSubscriptionsFromAllServers
    subsAfterFirst    \* remote state when the first delete call returned

vars == << redfishServers, subs, calls, pc, wpc, todo, cleanupErr, uri, err,
           wg, mu, subscriptionMap, errChan, allErrors, ret, callNo, rpc,
           rres, rwg, subsAfterFirst >>

Workers == 1..Len(redfishServers)

EmptyMap == [k \in {} |-> NoId]

NoReturn == [returned |-> FALSE, nilMap |-> TRUE, map |-> EmptyMap,
             nilErr |-> TRUE, errors |-> << >>]

----------------------------------------------------------------------------
\* Remote calls.

\* One more remote call in the log.
Logged(log, by, op, to, id, ok) ==
    log (+) SetToBag({ [by |-> by, op |-> op, to |-> to, id |-> id, ok |-> ok] })

\* gofish.Connect reaches a controller only at the address of one.
Reachable(a) == a \in Addrs

\* The subscriptions of a listing, in the order of their identifiers.
RECURSIVE Listing(_)
Listing(S) ==
    IF S = {} THEN << >>
    ELSE LET s == CHOOSE x \in S : \A y \in S : x.ODataID <= y.ODataID
         IN  << s >> \o Listing(S \ {s})

Active(a, id) == \E s \in subs[a] : s.ODataID = id

By(phase, call, w) == [phase |-> phase, call |-> call, w |-> w]

----------------------------------------------------------------------------
\* deleteSubscriptionFromServer taking "no such subscription" for a success.
deleteSubscriptionFromServer_Lenient(by, server, subscriptionURI, res) ==
    \/ /\ res = "connect"
       /\ calls' = Logged(calls, by, "connect", server, NoId, FALSE)
       /\ UNCHANGED subs
    \/ /\ res = "eventservice"
       /\ Reachable(server)
       /\ calls' = Logged(Logged(calls, by, "connect", server, NoId, TRUE),
                          by, "logout", server, NoId, TRUE)
       /\ UNCHANGED subs
    \/ /\ res = "delete"
       /\ Reachable(server)
       /\ Active(server, subscriptionURI)
       /\ calls' = Logged(Logged(Logged(calls,
                          by, "connect", server, NoId, TRUE),
                          by, "delete", server, subscriptionURI, FALSE),
                          by, "logout", server, NoId, TRUE)
       /\ UNCHANGED subs
    \/ /\ res = ""
       /\ Reachable(server)
       /\ calls' = Logged(Logged(Logged(calls,
                          by, "connect", server, NoId, TRUE),
                          by, "delete", server, subscriptionURI, TRUE),
                          by, "logout", server, NoId, TRUE)
       /\ subs' = [subs EXCEPT ![server] =
                      { s \in @ : s.ODataID # subscriptionURI }]

\* deleteSubscriptionFromServer(server, subscriptionURI): connect, get the
\* event service, delete, with the deferred Logout.  res is the error it
\* returns ("" is nil).  A delete of a subscription the controller does not
\* hold fails; any call may also fail for reasons of its own.
DeleteResults == { "", "connect", "eventservice", "delete" }

deleteSubscriptionFromServer(by, server, subscriptionURI, res) ==
    \/ /\ res = "connect"
       /\ calls' = Logged(calls, by, "connect", server, NoId, FALSE)
       /\ UNCHANGED subs
    \/ /\ res = "eventservice"
       /\ Reachable(server)
       /\ calls' = Logged(Logged(calls, by, "connect", server, NoId, TRUE),
                          by, "logout", server, NoId, TRUE)
       /\ UNCHANGED subs
    \/ /\ res = "delete"
       /\ Reachable(server)
       /\ calls' = Logged(Logged(Logged(calls,
                          by, "connect", server, NoId, TRUE),
                          by, "delete", server, subscriptionURI, FALSE),
                          by, "logout", server, NoId, TRUE)
       /\ UNCHANGED subs
    \/ /\ res = ""
       /\ Reachable(server)
       /\ Active(server, subscriptionURI)
       /\ calls' = Logged(Logged(Logged(calls,
                          by, "connect", server, NoId, TRUE),
                          by, "delete", server, subscriptionURI, TRUE),
                          by, "logout", server, NoId, TRUE)
       /\ subs' = [subs EXCEPT ![server] =
                      { s \in @ : s.ODataID # subscriptionURI }]

\* getServerInfo falling back on the first descriptor of the list.
getServerInfo_First(servers, serverIP) ==
    IF servers = << >> THEN NoAddr
    ELSE IF \E j \in 1..Len(servers) : servers[j] = serverIP THEN serverIP
    ELSE Head(servers)

\* getServerInfo: the first descriptor with the IP, else the zero value.
RECURSIVE getServerInfo(_, _)
getServerInfo(servers, serverIP) ==
    IF servers = << >> THEN NoAddr
    ELSE IF Head(servers) = serverIP THEN Head(servers)
    ELSE getServerInfo(Tail(servers), serverIP)

----------------------------------------------------------------------------
\* Create worker i: the goroutine of lines 148-159 for redfishServers[i].

\* createSubscription_Open of a worker that gives up when another worker
\* has already failed.
createSubscription_Open_FailFast(i) ==
    LET server == redfishServers[i]
        by     == By("create", 0, i)
    IN  /\ wpc[i] = "open"
        /\ \A j \in Workers : err[j] = ""
        /\ \/ /\ calls' = Logged(calls, by, "connect", server, NoId, FALSE)
              /\ err' = [err EXCEPT ![i] = "connect"]
              /\ wpc' = [wpc EXCEPT ![i] = "send"]
           \/ /\ Reachable(server)
              /\ calls' = Logged(Logged(calls,
                                 by, "connect", server, NoId, TRUE),
                                 by, "logout", server, NoId, TRUE)
              /\ err' = [err EXCEPT ![i] = "eventservice"]
              /\ wpc' = [wpc EXCEPT ![i] = "send"]
           \/ /\ Reachable(server)
              /\ calls' = Logged(calls, by, "connect", server, NoId, TRUE)
              /\ wpc' = [wpc EXCEPT ![i] = "list"]
              /\ UNCHANGED err
        /\ UNCHANGED << redfishServers, subs, pc, todo, cleanupErr, uri, wg,
                        mu, subscriptionMap, errChan, allErrors, ret, callNo,
                        rpc, rres, rwg, subsAfterFirst >>

\* createSubscription, lines 71-81: connect and get the event service.
createSubscription_Open(i) ==
    LET server == redfishServers[i]
        by     == By("create", 0, i)
    IN  /\ wpc[i] = "open"
        /\ \/ /\ calls' = Logged(calls, by, "connect", server, NoId, FALSE)
              /\ err' = [err EXCEPT ![i] = "connect"]
              /\ wpc' = [wpc EXCEPT ![i] = "send"]
           \/ /\ Reachable(server)
              /\ calls' = Logged(Logged(calls,
                                 by, "connect", server, NoId, TRUE),
                                 by, "logout", server, NoId, TRUE)
              /\ err' = [err EXCEPT ![i] = "eventservice"]
              /\ wpc' = [wpc EXCEPT ![i] = "send"]
           \/ /\ Reachable(server)
              /\ calls' = Logged(calls, by, "connect", server, NoId, TRUE)
              /\ wpc' = [wpc EXCEPT ![i] = "list"]
              /\ UNCHANGED err
        /\ UNCHANGED << redfishServers, subs, pc, todo, cleanupErr, uri, wg,
                        mu, subscriptionMap, errChan, allErrors, ret, callNo,
                        rpc, rres, rwg, subsAfterFirst >>

\* Conflicts, comparing the contexts instead of the destinations.
Conflicts_ByContext(subscription, payload) ==
    subscription.Context = payload.Context

\* Line 234: what makes an existing subscription a conflicting one.
Conflicts(subscription, payload) ==
    subscription.Destination = payload.Destination

Conflicting(subscriptions, payload) ==
    SelectSeq(subscriptions, LAMBDA s : Conflicts(s, payload))

\* getServerSubscriptions with Logout called at the end of the function
\* instead of deferred: the return of line 263 leaves the session open.
getServerSubscriptions_NoDefer(i) ==
    LET server == redfishServers[i]
        by     == By("create", 0, i)
        conn   == Logged(calls, by, "connect", server, NoId, TRUE)
    IN  /\ wpc[i] = "list"
        /\ \/ /\ calls' = Logged(calls, by, "connect", server, NoId, FALSE)
              /\ cleanupErr' = [cleanupErr EXCEPT ![i] = "connect"]
              /\ wpc' = [wpc EXCEPT ![i] = "create"]
              /\ UNCHANGED todo
           \/ /\ Reachable(server)
              /\ calls' = Logged(conn, by, "logout", server, NoId, TRUE)
              /\ cleanupErr' = [cleanupErr EXCEPT ![i] = "eventservice"]
              /\ wpc' = [wpc EXCEPT ![i] = "create"]
              /\ UNCHANGED todo
           \/ /\ Reachable(server)
              /\ calls' = Logged(conn, by, "list", server, NoId, FALSE)
              /\ cleanupErr' = [cleanupErr EXCEPT ![i] = "list"]
              /\ wpc' = [wpc EXCEPT ![i] = "create"]
              /\ UNCHANGED todo
           \/ /\ Reachable(server)
              /\ calls' = Logged(Logged(conn, by, "list", server, NoId, TRUE),
                                 by, "logout", server, NoId, TRUE)
              /\ todo' = [todo EXCEPT ![i] =
                            Conflicting(Listing(subs[server]),
                                        subscriptionPayload)]
              /\ wpc' = [wpc EXCEPT ![i] =
                            IF todo'[i] = << >> THEN "create" ELSE "cleanup"]
              /\ UNCHANGED cleanupErr
        /\ UNCHANGED << redfishServers, subs, pc, uri, err, wg, mu,
                        subscriptionMap, errChan, allErrors, ret, callNo,
                        rpc, rres, rwg, subsAfterFirst >>

\* deleteConflictingSubscriptions, lines 229-232, with getServerSubscriptions
\* (lines 247-266): list the subscriptions of the server.  An error ends
\* deleteConflictingSubscriptions, which returns it.
getServerSubscriptions(i) ==
    LET server == redfishServers[i]
        by     == By("create", 0, i)
        conn   == Logged(calls, by, "connect", server, NoId, TRUE)
    IN  /\ wpc[i] = "list"
        /\ \/ /\ calls' = Logged(calls, by, "connect", server, NoId, FALSE)
              /\ cleanupErr' = [cleanupErr EXCEPT ![i] = "connect"]
              /\ wpc' = [wpc EXCEPT ![i] = "create"]
              /\ UNCHANGED todo
           \/ /\ Reachable(server)
              /\ calls' = Logged(conn, by, "logout", server, NoId, TRUE)
              /\ cleanupErr' = [cleanupErr EXCEPT ![i] = "eventservice"]
              /\ wpc' = [wpc EXCEPT ![i] = "create"]
              /\ UNCHANGED todo
           \/ /\ Reachable(server)
              /\ calls' = Logged(Logged(conn, by, "list", server, NoId, FALSE),
                                 by, "logout", server, NoId, TRUE)
              /\ cleanupErr' = [cleanupErr EXCEPT ![i] = "list"]
              /\ wpc' = [wpc EXCEPT ![i] = "create"]
              /\ UNCHANGED todo
           \/ /\ Reachable(server)
              /\ calls' = Logged(Logged(conn, by, "list", server, NoId, TRUE),
                                 by, "logout", server, NoId, TRUE)
              /\ todo' = [todo EXCEPT ![i] =
                            Conflicting(Listing(subs[server]),
                                        subscriptionPayload)]
              /\ wpc' = [wpc EXCEPT ![i] =
                            IF todo'[i] = << >> THEN "create" ELSE "cleanup"]
              /\ UNCHANGED cleanupErr
        /\ UNCHANGED << redfishServers, subs, pc, uri, err, wg, mu,
                        subscriptionMap, errChan, allErrors, ret, callNo,
                        rpc, rres, rwg, subsAfterFirst >>

\* deleteConflictingSubscriptions, lines 233-243: one turn of the loop, on the
\* next conflicting subscription.  A failed delete ends the loop and is
\* returned; after the last one the function returns nil.
deleteConflictingSubscriptions(i) ==
    LET server == redfishServers[i]
        by     == By("create", 0, i)
    IN  /\ wpc[i] = "cleanup"
        /\ \E res \in DeleteResults :
              /\ deleteSubscriptionFromServer(by, server,
                                              Head(todo[i]).ODataID, res)
              /\ IF res = ""
                 THEN /\ todo' = [todo EXCEPT ![i] = Tail(@)]
                      /\ wpc' = [wpc EXCEPT ![i] =
                            IF todo'[i] = << >> THEN "create" ELSE "cleanup"]
                      /\ UNCHANGED cleanupErr
                 ELSE /\ cleanupErr' = [cleanupErr EXCEPT ![i] = "delete"]
                      /\ wpc' = [wpc EXCEPT ![i] = "create"]
                      /\ UNCHANGED todo
        /\ UNCHANGED << redfishServers, pc, uri, err, wg, mu, subscriptionMap,
                        errChan, allErrors, ret, callNo, rpc, rres, rwg,
                        subsAfterFirst >>

\* Line 95: the version check always answers false.
isV1_5 == FALSE

\* The create call of either shape, with the deferred Logout of line 75:
\* the subscription the controller then holds carries the payload's fields.
CreateEventSubscription(i, shape) ==
    LET server == redfishServers[i]
        by     == By("create", 0, i)
    IN  \/ /\ calls' = Logged(Logged(calls,
                              by, "create", server, NoId, FALSE),
                              by, "logout", server, NoId, TRUE)
           /\ err' = [err EXCEPT ![i] = shape]
           /\ wpc' = [wpc EXCEPT ![i] = "send"]
           /\ UNCHANGED << subs, uri >>
        \/ /\ calls' = Logged(Logged(calls,
                              by, "create", server, NewId(i), TRUE),
                              by, "logout", server, NoId, TRUE)
           /\ subs' = [subs EXCEPT ![server] = @ \cup
                         { [ODataID     |-> NewId(i),
                            Destination |-> subscriptionPayload.Destination,
                            Context     |-> subscriptionPayload.Context] }]
           /\ uri' = [uri EXCEPT ![i] = NewId(i)]
           /\ wpc' = [wpc EXCEPT ![i] = "lock"]
           /\ UNCHANGED err

\* Lines 99-116 and 119-134.
createV1_5Subscription(i) == CreateEventSubscription(i, "create v1.5")

createLegacySubscription(i) == CreateEventSubscription(i, "create legacy")

\* createSubscription, lines 83-89: the value deleteConflictingSubscriptions
\* returned is dropped, and the create call is made.
createSubscription_Create(i) ==
    /\ wpc[i] = "create"
    /\ IF isV1_5 THEN createV1_5Subscription(i)
                 ELSE createLegacySubscription(i)
    /\ UNCHANGED << redfishServers, pc, todo, cleanupErr, wg, mu,
                    subscriptionMap, errChan, allErrors, ret, callNo, rpc,
                    rres, rwg, subsAfterFirst >>

\* Worker_Send with the loop variable captured by the goroutine instead of
\* passed to it: the message names the last server of the list.
Worker_Send_Captured(i) ==
    /\ wpc[i] = "send"
    /\ Len(errChan) < Len(redfishServers)
    /\ errChan' = Append(errChan,
                         [ip    |-> redfishServers[Len(redfishServers)],
                          cause |-> err[i]])
    /\ wg' = wg - 1
    /\ wpc' = [wpc EXCEPT ![i] = "done"]
    /\ UNCHANGED << redfishServers, subs, calls, pc, todo, cleanupErr, uri,
                    err, mu, subscriptionMap, allErrors, ret, callNo, rpc,
                    rres, rwg, subsAfterFirst >>

\* Worker_Send on a channel made with room for one error only.
Worker_Send_OneSlot(i) ==
    /\ wpc[i] = "send"
    /\ Len(errChan) < 1
    /\ errChan' = Append(errChan, [ip |-> redfishServers[i], cause |-> err[i]])
    /\ wg' = wg - 1
    /\ wpc' = [wpc EXCEPT ![i] = "done"]
    /\ UNCHANGED << redfishServers, subs, calls, pc, todo, cleanupErr, uri,
                    err, mu, subscriptionMap, allErrors, ret, callNo, rpc,
                    rres, rwg, subsAfterFirst >>

\* Worker_Send without the return of line 153: after sending its error the
\* worker goes on to the insert, with the empty identifier.
Worker_Send_NoReturn(i) ==
    /\ wpc[i] = "send"
    /\ Len(errChan) < Len(redfishServers)
    /\ errChan' = Append(errChan, [ip |-> redfishServers[i], cause |-> err[i]])
    /\ wpc' = [wpc EXCEPT ![i] = "lock"]
    /\ UNCHANGED << redfishServers, subs, calls, pc, todo, cleanupErr, uri,
                    err, wg, mu, subscriptionMap, allErrors, ret, callNo, rpc,
                    rres, rwg, subsAfterFirst >>

\* Lines 151-154: the error goes to errChan (a buffered channel takes it only
\* while it is not full), and the deferred wg.Done runs.
Worker_Send(i) ==
    /\ wpc[i] = "send"
    /\ Len(errChan) < Len(redfishServers)
    /\ errChan' = Append(errChan, [ip |-> redfishServers[i], cause |-> err[i]])
    /\ wg' = wg - 1
    /\ wpc' = [wpc EXCEPT ![i] = "done"]
    /\ UNCHANGED << redfishServers, subs, calls, pc, todo, cleanupErr, uri,
                    err, mu, subscriptionMap, allErrors, ret, callNo, rpc,
                    rres, rwg, subsAfterFirst >>

\* Worker_Lock on a mutex of the goroutine's own (a copy): it is never found
\* held.
Worker_Lock_OwnMutex(i) ==
    /\ wpc[i] = "lock"
    /\ mu' = i
    /\ wpc' = [wpc EXCEPT ![i] = "write"]
    /\ UNCHANGED << redfishServers, subs, calls, pc, todo, cleanupErr, uri,
                    err, wg, subscriptionMap, errChan, allErrors, ret, callNo,
                    rpc, rres, rwg, subsAfterFirst >>

\* Line 155.
Worker_Lock(i) ==
    /\ wpc[i] = "lock"
    /\ mu = 0
    /\ mu' = i
    /\ wpc' = [wpc EXCEPT ![i] = "write"]
    /\ UNCHANGED << redfishServers, subs, calls, pc, todo, cleanupErr, uri,
                    err, wg, subscriptionMap, errChan, allErrors, ret, callNo,
                    rpc, rres, rwg, subsAfterFirst >>

\* MapInsert with the map made anew at every insert.
MapInsert_Fresh(m, k, v) == [x \in {k} |-> v]

\* m[k] = v of a Go map.
MapInsert(m, k, v) ==
    [x \in DOMAIN m \cup {k} |-> IF x = k THEN v ELSE m[x]]

\* Worker_Write with the loop variable captured by the goroutine instead of
\* passed to it: the key is the address of the last server of the list.
Worker_Write_Captured(i) ==
    /\ wpc[i] = "write"
    /\ subscriptionMap' = MapInsert(subscriptionMap,
                                    redfishServers[Len(redfishServers)], uri[i])
    /\ wpc' = [wpc EXCEPT ![i] = "unlock"]
    /\ UNCHANGED << redfishServers, subs, calls, pc, todo, cleanupErr, uri,
                    err, wg, mu, errChan, allErrors, ret, callNo, rpc, rres,
                    rwg, subsAfterFirst >>

\* Line 156.
Worker_Write(i) ==
    /\ wpc[i] = "write"
    /\ subscriptionMap' = MapInsert(subscriptionMap, redfishServers[i], uri[i])
    /\ wpc' = [wpc EXCEPT ![i] = "unlock"]
    /\ UNCHANGED << redfishServers, subs, calls, pc, todo, cleanupErr, uri,
                    err, wg, mu, errChan, allErrors, ret, callNo, rpc, rres,
                    rwg, subsAfterFirst >>

\* Worker_Unlock without the call of line 157: the mutex stays held.
Worker_Unlock_Held(i) ==
    /\ wpc[i] = "unlock"
    /\ wg' = wg - 1
    /\ wpc' = [wpc EXCEPT ![i] = "done"]
    /\ UNCHANGED << redfishServers, subs, calls, pc, todo, cleanupErr, uri,
                    err, mu, subscriptionMap, errChan, allErrors, ret, callNo,
                    rpc, rres, rwg, subsAfterFirst >>

\* Lines 157-159, and the deferred wg.Done.
Worker_Unlock(i) ==
    /\ wpc[i] = "unlock"
    /\ mu' = 0
    /\ wg' = wg - 1
    /\ wpc' = [wpc EXCEPT ![i] = "done"]
    /\ UNCHANGED << redfishServers, subs, calls, pc, todo, cleanupErr, uri,
                    err, subscriptionMap, errChan, allErrors, ret, callNo,
                    rpc, rres, rwg, subsAfterFirst >>

----------------------------------------------------------------------------
\* DeleteSubscriptionsFromAllServers.

\* Lines 183-198: one goroutine per entry of the map; n tells the calls
\* apart (0: the call made by CreateSubscriptionsForAllServers).
DeleteSubscriptionsFromAllServers_Start(n) ==
    /\ callNo' = n
    /\ rpc' = [k \in Addrs |->
                 IF k \in DOMAIN subscriptionMap THEN "run" ELSE "none"]
    /\ rres' = [k \in Addrs |-> "none"]
    /\ rwg' = Cardinality(DOMAIN subscriptionMap)

\* DeleteWorker of a rollback that puts back what the conflict cleanup
\* removed when it takes away what was created.
DeleteWorker_Restoring(k) ==
    LET server == getServerInfo(redfishServers, k)
        by     == By("delete", callNo, k)
    IN  /\ rpc[k] = "run"
        /\ \E res \in DeleteResults :
              /\ IF res = ""
                 THEN /\ Reachable(server)
                      /\ Active(server, subscriptionMap[k])
                      /\ calls' = Logged(Logged(Logged(calls,
                                     by, "connect", server, NoId, TRUE),
                                     by, "delete", server, subscriptionMap[k],
                                     TRUE),
                                     by, "logout", server, NoId, TRUE)
                      /\ subs' = [subs EXCEPT ![server] =
                                     { s \in @ : s.ODataID # subscriptionMap[k] }
                                     \cup subsAfterFirst[server]]
                 ELSE deleteSubscriptionFromServer(by, server,
                                                   subscriptionMap[k], res)
              /\ rres' = [rres EXCEPT ![k] = res]
        /\ rpc' = [rpc EXCEPT ![k] = "done"]
        /\ rwg' = rwg - 1
        /\ UNCHANGED << redfishServers, pc, wpc, todo, cleanupErr, uri, err,
                        wg, mu, subscriptionMap, errChan, allErrors, ret,
                        callNo, subsAfterFirst >>

\* Lines 190-196: the goroutine of one entry.  The outcome is logged and
\* nothing else is done with it.
DeleteWorker(k) ==
    LET server == getServerInfo(redfishServers, k)
    IN  /\ rpc[k] = "run"
        /\ \E res \in DeleteResults :
              /\ deleteSubscriptionFromServer(By("delete", callNo, k), server,
                                              subscriptionMap[k], res)
              /\ rres' = [rres EXCEPT ![k] = res]
        /\ rpc' = [rpc EXCEPT ![k] = "done"]
        /\ rwg' = rwg - 1
        /\ UNCHANGED << redfishServers, pc, wpc, todo, cleanupErr, uri, err,
                        wg, mu, subscriptionMap, errChan, allErrors, ret,
                        callNo, subsAfterFirst >>

----------------------------------------------------------------------------
\* CreateSubscriptionsForAllServers.

\* Lines 139-160: the map, the channel, and one goroutine per server.
CreateSubscriptionsForAllServers_Start ==
    /\ pc = "start"
    /\ subscriptionMap' = EmptyMap
    /\ errChan' = << >>
    /\ wg' = Len(redfishServers)
    /\ wpc' = [i \in 1..MaxServers |->
                 IF i \in Workers THEN "open" ELSE "none"]
    /\ pc' = "wait"
    /\ UNCHANGED << redfishServers, subs, calls, todo, cleanupErr, uri, err,
                    mu, allErrors, ret, callNo, rpc, rres, rwg,
                    subsAfterFirst >>

\* Join with a barrier that opens one worker early.
CreateSubscriptionsForAllServers_Join_Early ==
    /\ pc = "wait"
    /\ wg <= 1
    /\ allErrors' = errChan
    /\ errChan' = << >>
    /\ pc' = "decide"
    /\ UNCHANGED << redfishServers, subs, calls, wpc, todo, cleanupErr, uri,
                    err, wg, mu, subscriptionMap, ret, callNo, rpc, rres, rwg,
                    subsAfterFirst >>

\* Lines 162-171: wait for the workers, close the channel and drain it.
CreateSubscriptionsForAllServers_Join ==
    /\ pc = "wait"
    /\ wg = 0
    /\ allErrors' = errChan
    /\ errChan' = << >>
    /\ pc' = "decide"
    /\ UNCHANGED << redfishServers, subs, calls, wpc, todo, cleanupErr, uri,
                    err, wg, mu, subscriptionMap, ret, callNo, rpc, rres, rwg,
                    subsAfterFirst >>

\* Failed, off by one.
Failed_OffByOne(errors) == Len(errors) > 1

\* Line 173.
Failed(errors) == Len(errors) > 0

\* Decide without the call of line 174.
CreateSubscriptionsForAllServers_Decide_NoRollback ==
    /\ pc = "decide"
    /\ IF Failed(allErrors)
       THEN /\ pc' = "deleting"
            /\ UNCHANGED << ret, callNo, rpc, rres, rwg >>
       ELSE /\ ret' = [returned |-> TRUE, nilMap |-> FALSE,
                       map |-> subscriptionMap, nilErr |-> TRUE,
                       errors |-> << >>]
            /\ pc' = "returned"
            /\ UNCHANGED << callNo, rpc, rres, rwg >>
    /\ UNCHANGED << redfishServers, subs, calls, wpc, todo, cleanupErr, uri,
                    err, wg, mu, subscriptionMap, errChan, allErrors,
                    subsAfterFirst >>

\* Lines 173-178: roll back, or return the map.
CreateSubscriptionsForAllServers_Decide ==
    /\ pc = "decide"
    /\ IF Failed(allErrors)
       THEN /\ DeleteSubscriptionsFromAllServers_Start(0)
            /\ pc' = "deleting"
            /\ UNCHANGED ret
       ELSE /\ ret' = [returned |-> TRUE, nilMap |-> FALSE,
                       map |-> subscriptionMap, nilErr |-> TRUE,
                       errors |-> << >>]
            /\ pc' = "returned"
            /\ UNCHANGED << callNo, rpc, rres, rwg >>
    /\ UNCHANGED << redfishServers, subs, calls, wpc, todo, cleanupErr, uri,
                    err, wg, mu, subscriptionMap, errChan, allErrors,
                    subsAfterFirst >>

\* The errors the delete workers logged, as messages.
RECURSIVE RollbackErrors(_)
RollbackErrors(K) ==
    IF K = {} THEN << >>
    ELSE LET k == CHOOSE x \in K : \A y \in K : x <= y
         IN  (IF rres[k] \notin {"", "none"}
              THEN << [ip |-> k, cause |-> rres[k]] >> ELSE << >>)
             \o RollbackErrors(K \ {k})

\* Abort with the errors of the rollback added to the aggregate.
CreateSubscriptionsForAllServers_Abort_Escalating ==
    /\ pc = "deleting"
    /\ callNo = 0
    /\ rwg = 0
    /\ ret' = [returned |-> TRUE, nilMap |-> TRUE, map |-> EmptyMap,
               nilErr |-> FALSE,
               errors |-> allErrors \o RollbackErrors(Addrs)]
    /\ pc' = "returned"
    /\ UNCHANGED << redfishServers, subs, calls, wpc, todo, cleanupErr, uri,
                    err, wg, mu, subscriptionMap, errChan, allErrors, callNo,
                    rpc, rres, rwg, subsAfterFirst >>

\* Lines 200 and 175: the delete workers are done; return nil and the
\* aggregate of the errors of the create phase.
CreateSubscriptionsForAllServers_Abort ==
    /\ pc = "deleting"
    /\ callNo = 0
    /\ rwg = 0
    /\ ret' = [returned |-> TRUE, nilMap |-> TRUE, map |-> EmptyMap,
               nilErr |-> FALSE, errors |-> allErrors]
    /\ pc' = "returned"
    /\ UNCHANGED << redfishServers, subs, calls, wpc, todo, cleanupErr, uri,
                    err, wg, mu, subscriptionMap, errChan, allErrors, callNo,
                    rpc, rres, rwg, subsAfterFirst >>

----------------------------------------------------------------------------
\* A caller of DeleteSubscriptionsFromAllServers that calls it twice with the
\* same list and the same map.

Caller_Delete ==
    /\ pc = "caller"
    /\ callNo < 2
    /\ DeleteSubscriptionsFromAllServers_Start(callNo + 1)
    /\ pc' = "deleting"
    /\ UNCHANGED << redfishServers, subs, calls, wpc, todo, cleanupErr, uri,
                    err, wg, mu, subscriptionMap, errChan, allErrors, ret,
                    subsAfterFirst >>

\* Line 200: wg.Wait() returns and so does the call.
DeleteSubscriptionsFromAllServers_Return ==
    /\ pc = "deleting"
    /\ callNo >= 1
    /\ rwg = 0
    /\ pc' = "caller"
    /\ subsAfterFirst' = IF callNo = 1 THEN subs ELSE subsAfterFirst
    /\ UNCHANGED << redfishServers, subs, calls, wpc, todo, cleanupErr, uri,
                    err, wg, mu, subscriptionMap, errChan, allErrors, ret,
                    callNo, rpc, rres, rwg >>

----------------------------------------------------------------------------
\* Server lists: descriptors with pairwise distinct addresses (a descriptor
\* is identified by its address within a fleet operation); up to the names
\* of the addresses these are the lists 1..n.
ServerLists == { [i \in 1..n |-> i] : n \in 0..MaxServers }

Idle ==
    /\ calls = EmptyBag
    /\ wpc = [i \in 1..MaxServers |-> "none"]
    /\ todo = [i \in 1..MaxServers |-> << >>]
    /\ cleanupErr = [i \in 1..MaxServers |-> ""]
    /\ uri = [i \in 1..MaxServers |-> NoId]
    /\ err = [i \in 1..MaxServers |-> ""]
    /\ wg = 0
    /\ mu = 0
    /\ errChan = << >>
    /\ allErrors = << >>
    /\ ret = NoReturn
    /\ callNo = 0
    /\ rpc = [k \in Addrs |-> "none"]
    /\ rres = [k \in Addrs |-> "none"]
    /\ rwg = 0
    /\ subsAfterFirst = subs

\* A number for a set of subscriptions, to order the sets.
RECURSIVE Weight(_)
Weight(S) ==
    IF S = {} THEN 0
    ELSE LET s == CHOOSE x \in S : TRUE
         IN  s.ODataID + Weight(S \ {s})

\* CreateSubscriptionsForAllServers is called with a list and the payload;
\* the controllers of the list hold any of the earlier subscriptions.  The
\* servers of a list are interchangeable, so of the initial states that
\* differ only in which server holds what, one is examined; a controller
\* outside the list is never called and holds nothing.
Init ==
    /\ redfishServers \in ServerLists
    /\ subs \in { f \in [Addrs -> SUBSET PreSubs] :
                    /\ \A a \in Addrs : a <= Len(redfishServers)
                                           => f[a] \in Holdings
                    /\ \A a \in Addrs : a > Len(redfishServers) => f[a] = {}
                    /\ \A a \in Addrs : a < Len(redfishServers) =>
                          Weight(f[a]) <= Weight(f[a + 1]) }
    /\ subscriptionMap = EmptyMap
    /\ pc = "start"
    /\ Idle

Next ==
    \/ CreateSubscriptionsForAllServers_Start
    \/ \E i \in Workers : createSubscription_Open(i)
    \/ \E i \in Workers : getServerSubscriptions(i)
    \/ \E i \in Workers : deleteConflictingSubscriptions(i)
    \/ \E i \in Workers : createSubscription_Create(i)
    \/ \E i \in Workers : Worker_Send(i)
    \/ \E i \in Workers : Worker_Lock(i)
    \/ \E i \in Workers : Worker_Write(i)
    \/ \E i \in Workers : Worker_Unlock(i)
    \/ CreateSubscriptionsForAllServers_Join
    \/ CreateSubscriptionsForAllServers_Decide
    \/ \E k \in Addrs : DeleteWorker(k)
    \/ CreateSubscriptionsForAllServers_Abort

Spec == Init /\ [][Next]_vars

\* The steps of the goroutine of lines 148-159 for the i-th server.
CreateWorker(i) ==
    \/ createSubscription_Open(i)
    \/ getServerSubscriptions(i)
    \/ deleteConflictingSubscriptions(i)
    \/ createSubscription_Create(i)
    \/ Worker_Send(i)
    \/ Worker_Lock(i)
    \/ Worker_Write(i)
    \/ Worker_Unlock(i)

\* The steps of the goroutine that called CreateSubscriptionsForAllServers.
Orchestrator ==
    \/ CreateSubscriptionsForAllServers_Start
    \/ CreateSubscriptionsForAllServers_Join
    \/ CreateSubscriptionsForAllServers_Decide
    \/ CreateSubscriptionsForAllServers_Abort

\* The Go scheduler runs every goroutine that can run, and a remote call
\* that was made returns: a goroutine whose next step stays possible takes
\* it.
Fairness ==
    /\ WF_vars(Orchestrator)
    /\ \A i \in 1..MaxServers : WF_vars(CreateWorker(i))
    /\ \A k \in Addrs : WF_vars(DeleteWorker(k))

SpecFair == Spec /\ Fairness

\* Server lists in which an address occurs more than once (the code does
\* not look at the addresses of the list it is given).  The workers are
\* interchangeable and so are the addresses: of the lists that differ only
\* in the order of the descriptors or the names of the addresses, the one
\* examined has its descriptors grouped by address, the shared address
\* first.
DuplicateLists ==
    { l \in UNION { [1..n -> Addrs] : n \in 2..MaxServers } :
        /\ l[1] = 1 /\ l[2] = 1
        /\ \A i \in 2..Len(l) : l[i] \in { l[i - 1], l[i - 1] + 1 } }

\* CreateSubscriptionsForAllServers called with such a list.
InitDuplicates ==
    /\ redfishServers \in DuplicateLists
    /\ subs \in { f \in [Addrs -> SUBSET PreSubs] :
                    \A a \in Addrs :
                       IF \E i \in 1..Len(redfishServers) : redfishServers[i] = a
                       THEN f[a] \in Holdings ELSE f[a] = {} }
    /\ subscriptionMap = EmptyMap
    /\ pc = "start"
    /\ Idle

SpecDuplicates == InitDuplicates /\ [][Next]_vars

\* DeleteSubscriptionsFromAllServers is called with a list and any map from
\* addresses to identifiers (of the list or not), on controllers holding any
\* subscriptions; a controller the map does not name holds nothing.
InitDelete ==
    /\ redfishServers \in ServerLists
    /\ subscriptionMap \in UNION { [D -> PreIds] : D \in SUBSET Addrs }
    /\ subs \in { f \in [Addrs -> SUBSET PreSubs] :
                    \A a \in Addrs : IF a \in DOMAIN subscriptionMap
                                     THEN f[a] \in Holdings ELSE f[a] = {} }
    /\ pc = "caller"
    /\ Idle

NextDelete ==
    \/ Caller_Delete
    \/ \E k \in Addrs : DeleteWorker(k)
    \/ DeleteSubscriptionsFromAllServers_Return

SpecDelete == InitDelete /\ [][NextDelete]_vars

----------------------------------------------------------------------------
\* Vocabulary of the properties.

\* Identifiers in use anywhere.
Ids == 1..(Cardinality(PreSubs) + MaxServers)

RECURSIVE Copies(_, _)
Copies(S, log) ==
    IF S = {} THEN 0
    ELSE LET r == CHOOSE x \in S : TRUE
         IN  CopiesIn(r, log) + Copies(S \ {r}, log)

\* How many calls of the log satisfy P.
CountIn(log, P(_)) == Copies({ r \in BagToSet(log) : P(r) }, log)

Count(P(_)) == CountIn(calls, P)

\* The create call of worker i returned id.
Created(i, id) ==
    Count(LAMBDA r : r.by = By("create", 0, i) /\ r.op = "create"
                     /\ r.to = redfishServers[i] /\ r.id = id /\ r.ok) = 1

\* Calls made by the delete worker of the rollback for key k.
RollbackConnects(k) ==
    Count(LAMBDA r : r.by = By("delete", 0, k) /\ r.op = "connect")

\* Delete calls a controller received during the rollback.
RollbackDeletes(a) ==
    Count(LAMBDA r : r.by.phase = "delete" /\ r.op = "delete" /\ r.to = a)

RollbackDeletesOf(a, id) ==
    Count(LAMBDA r : r.by.phase = "delete" /\ r.op = "delete" /\ r.to = a
                     /\ r.id = id)

ReturnedOk == ret.returned /\ ret.nilErr
ReturnedError == ret.returned /\ ~ret.nilErr

\* Messages about the server with address a, among msgs.
About(msgs, a) == { j \in 1..Len(msgs) : msgs[j].ip = a }

----------------------------------------------------------------------------
\* C1: when every per-server create attempt succeeds (addresses pairwise
\* distinct), CreateSubscriptionsForAllServers returns a nil error and a map
\* with exactly one entry per input server, each mapped to the identifier the
\* create call on that server returned; for an empty list, an empty map.
C1_AllSucceed ==
    (ret.returned /\ \A i \in Workers : err[i] = "") =>
        /\ ret.nilErr
        /\ ~ret.nilMap
        /\ DOMAIN ret.map = { redfishServers[i] : i \in Workers }
        /\ Cardinality(DOMAIN ret.map) = Len(redfishServers)
        /\ \A i \in Workers : Created(i, ret.map[redfishServers[i]])

C1_Witness ==
    /\ ret.returned
    /\ Len(redfishServers) >= 2
    /\ \A i \in Workers : err[i] = ""
    /\ Cardinality(DOMAIN ret.map) = Len(redfishServers)

\* C2 as stated: when at least one create attempt fails, the call returns a
\* nil map and a non-nil error, and every server whose create succeeded has
\* received exactly one compensating delete call, carrying the identifier
\* its create returned.
C2_EveryCreatedReceivesDelete ==
    (ret.returned /\ \E i \in Workers : err[i] # "") =>
        /\ ret.nilMap
        /\ ~ret.nilErr
        /\ \A i \in Workers : err[i] = "" =>
              /\ RollbackDeletes(redfishServers[i]) = 1
              /\ \A id \in Ids : Created(i, id) =>
                    RollbackDeletesOf(redfishServers[i], id) = 1

\* C2, amended: when at least one create attempt fails, the call returns a
\* nil map and a non-nil error, and for every server whose create succeeded
\* the rollback has made exactly one delete attempt: one connect call, and
\* one delete call carrying the identifier its create returned if the
\* attempt got its session and event service, none otherwise.
C2_EveryCreatedGetsOneAttempt ==
    (ret.returned /\ \E i \in Workers : err[i] # "") =>
        /\ ret.nilMap
        /\ ~ret.nilErr
        /\ \A i \in Workers : err[i] = "" =>
              LET a == redfishServers[i]
              IN  /\ RollbackConnects(a) = 1
                  /\ RollbackDeletes(a) =
                        IF rres[a] \in {"", "delete"} THEN 1 ELSE 0
                  /\ \A id \in Ids : Created(i, id) =>
                        RollbackDeletesOf(a, id) = RollbackDeletes(a)

C2_Witness ==
    /\ ReturnedError
    /\ \E i, j \in Workers :
          /\ i # j
          /\ err[i] = "" /\ err[j] = ""
          /\ RollbackDeletesOf(redfishServers[i], uri[i]) = 1
          /\ RollbackDeletesOf(redfishServers[j], uri[j]) = 1
    /\ \E i \in Workers : err[i] = "create legacy"

\* C3 as stated: after a successful return every server of the list holds
\* exactly one active subscription with the payload's destination, the one
\* recorded for it in the returned map, whatever the servers held before and
\* however the calls of the conflict cleanup ended.
C3_ExactlyOneMatching ==
    ReturnedOk =>
        \A i \in Workers :
            LET a == redfishServers[i]
                M == { s \in subs[a] :
                         s.Destination = subscriptionPayload.Destination }
            IN  /\ a \in DOMAIN ret.map
                /\ Cardinality(M) = 1
                /\ \A s \in M : s.ODataID = ret.map[a]

\* C4 as stated: when the conflict cleanup of a server fails, no create call
\* is issued on that server, no entry is written for it, the failure is its
\* error, and the whole call returns an error.
C4_CleanupFailureAborts ==
    \A i \in Workers : cleanupErr[i] # "" =>
        /\ Count(LAMBDA r : r.by = By("create", 0, i) /\ r.op = "create") = 0
        /\ redfishServers[i] \notin DOMAIN subscriptionMap
        /\ wpc[i] = "done" => err[i] # ""
        /\ ret.returned => ~ret.nilErr

\* C5: after a return with an error, if every compensating delete of the
\* rollback succeeded, every identifier a create call of this invocation
\* returned has been deleted from its server.
C5_NothingRetained ==
    (ReturnedError /\ \A k \in Addrs : rpc[k] = "done" => rres[k] = "") =>
        \A i \in Workers : \A id \in Ids :
            Created(i, id) => ~Active(redfishServers[i], id)

C5_Witness ==
    /\ ReturnedError
    /\ \A k \in Addrs : rpc[k] = "done" => rres[k] = ""
    /\ Cardinality({ i \in Workers : uri[i] # NoId }) >= 2

\* Delete calls a controller received from the create workers.
CleanupDeletesIn(log, a, id) ==
    CountIn(log, LAMBDA r : r.by.phase = "create" /\ r.op = "delete"
                            /\ r.to = a /\ r.id = id)

CreateCallsIn(log, a) ==
    CountIn(log, LAMBDA r : r.op = "create" /\ r.to = a)

\* C6: every delete call of the create phase targets an existing
\* subscription whose destination is the payload's, no subscription with
\* another destination is ever deleted, and the cleanup deletes of a server
\* are all issued before the create call on it.
C6_CleanupByDestinationBeforeCreate ==
    [][ /\ \A r \in BagToSet(calls') :
              ( /\ r.op = "delete"
                /\ r.by.phase = "create"
                /\ CopiesIn(r, calls') > CopiesIn(r, calls) )
              => /\ \E s \in subs[r.to] :
                       /\ s.ODataID = r.id
                       /\ s.Destination = subscriptionPayload.Destination
                 /\ \A c \in BagToSet(calls) :
                       ~(c.op = "create" /\ c.to = r.to)
        /\ \A a \in Addrs : \A s \in subs[a] :
              s.Destination # subscriptionPayload.Destination
              => s \in subs'[a] ]_vars

C6_Witness ==
    \E i \in Workers :
        LET a == redfishServers[i]
        IN  /\ CleanupDeletesIn(calls, a, 1) = 1
            /\ ~Active(a, 1)
            /\ Active(a, 2)
            /\ CreateCallsIn(calls, a) = 1

\* A map entry whose address is the address of no descriptor of the list.
Miss(k) ==
    /\ k \in DOMAIN subscriptionMap
    /\ \A j \in Workers : redfishServers[j] # k

\* C7 as stated: for a map entry whose address matches no descriptor, no
\* connect call and no delete call is issued.
C7_MissIssuesNoCall ==
    \A k \in Addrs : Miss(k) =>
        Count(LAMBDA r : r.by.phase = "delete" /\ r.by.w = k
                         /\ r.op \in {"connect", "delete"}) = 0

\* C7, amended: for a map entry whose address matches no descriptor, the
\* only call made is a connect with the zero-value descriptor (the empty
\* address), which reaches no controller and fails; no controller is
\* contacted and no delete call is issued for it, the failure is logged,
\* every other entry is still processed, and the call returns.
C7_MissContactsNoServer ==
    /\ \A k \in Addrs : Miss(k) =>
          /\ \A r \in BagToSet(calls) :
                (r.by.phase = "delete" /\ r.by.w = k)
                => (r.op = "connect" /\ r.to = NoAddr /\ ~r.ok)
          /\ rpc[k] = "done" => rres[k] = "connect"
    /\ (pc = "caller" /\ callNo >= 1) =>
          \A k \in DOMAIN subscriptionMap :
             /\ rpc[k] = "done"
             /\ ~Miss(k) =>
                   Count(LAMBDA r : r.by = By("delete", callNo, k)
                                    /\ r.op = "connect" /\ r.to = k) = 1

C7_Witness ==
    /\ pc = "caller"
    /\ callNo = 1
    /\ \E k1, k2 \in DOMAIN subscriptionMap :
          /\ Miss(k1)
          /\ rres[k1] = "connect"
          /\ ~Miss(k2)
          /\ rres[k2] = ""

SuccessfulDeletes(a, id) ==
    Count(LAMBDA r : r.op = "delete" /\ r.ok /\ r.to = a /\ r.id = id)

\* The first call deleted the subscription of entry k.
DeletedInFirst(k) ==
    Count(LAMBDA r : r.by = By("delete", 1, k) /\ r.op = "delete" /\ r.ok) = 1

\* C8: two calls of DeleteSubscriptionsFromAllServers in sequence with the
\* same list and map make at most one successful delete per identifier; for
\* an identifier the first call deleted, the delete of the second call
\* fails and is only logged; the second call returns, and it leaves a
\* controller as the first call left it unless the identifier of its entry
\* was still active there.
C8_RollbackIdempotent ==
    /\ \A a \in Addrs : \A id \in Ids : SuccessfulDeletes(a, id) <= 1
    /\ \A k \in DOMAIN subscriptionMap :
          (DeletedInFirst(k) /\ callNo = 2 /\ rpc[k] = "done") =>
             /\ rres[k] # ""
             /\ Count(LAMBDA r : r.by = By("delete", 2, k)
                                 /\ r.op = "delete" /\ r.ok) = 0
    /\ (pc = "caller" /\ callNo = 2) =>
          /\ \A k \in DOMAIN subscriptionMap : rpc[k] = "done"
          /\ \A a \in Addrs :
                subs[a] # subsAfterFirst[a] =>
                   /\ a \in DOMAIN subscriptionMap
                   /\ \E s \in subsAfterFirst[a] :
                         s.ODataID = subscriptionMap[a]

C8_Witness ==
    /\ pc = "caller"
    /\ callNo = 2
    /\ \E k \in DOMAIN subscriptionMap :
          /\ DeletedInFirst(k)
          /\ Count(LAMBDA r : r.by = By("delete", 2, k)
                              /\ r.op = "delete" /\ ~r.ok) = 1
          /\ subs[k] = subsAfterFirst[k]

\* C9: on the failure path every entry of the map has had its compensating
\* delete attempted whether or not another one failed, and the value
\* returned is nil with the errors of the create phase and nothing else,
\* whatever the outcome of the compensating deletes.
C9_RollbackNeverEscalates ==
    ReturnedError =>
        /\ \A k \in DOMAIN subscriptionMap :
              rpc[k] = "done" /\ RollbackConnects(k) = 1
        /\ ret.nilMap
        /\ Len(ret.errors) = Cardinality({ i \in Workers : err[i] # "" })
        /\ \A j \in 1..Len(ret.errors) :
              \E i \in Workers :
                 /\ err[i] # ""
                 /\ ret.errors[j] = [ip |-> redfishServers[i],
                                     cause |-> err[i]]

C9_Witness ==
    /\ ReturnedError
    /\ \E k1, k2 \in DOMAIN subscriptionMap :
          rres[k1] \in {"connect", "eventservice", "delete"} /\ rres[k2] = ""

\* C10: the aggregate error holds exactly one message for every server whose
\* create attempt failed, naming its address, and none for a server whose
\* attempt succeeded; a create worker that is done has produced either one
\* error or one entry of the map, never both and never neither.
C10_OneMessagePerFailure ==
    /\ ret.returned => (ret.nilErr <=> \A i \in Workers : err[i] = "")
    /\ ret.returned =>
          \A i \in Workers :
             LET m == About(ret.errors, redfishServers[i])
             IN  IF err[i] = "" THEN m = {}
                 ELSE /\ Cardinality(m) = 1
                      /\ \A j \in m : ret.errors[j].cause = err[i]
    /\ \A i \in Workers : wpc[i] = "done" =>
          LET a == redfishServers[i]
              n == Cardinality(About(errChan \o allErrors, a))
          IN  \/ n = 1 /\ a \notin DOMAIN subscriptionMap
              \/ n = 0 /\ a \in DOMAIN subscriptionMap

C10_Witness ==
    /\ ReturnedError
    /\ Cardinality({ i \in Workers : err[i] # "" }) >= 2
    /\ \E i \in Workers : err[i] = ""

\* Sessions opened by the caller `by' and not logged out: its successful
\* connect calls less its logout calls.
OpenSessionsOf(by) ==
    Count(LAMBDA r : r.by = by /\ r.op = "connect" /\ r.ok)
    - Count(LAMBDA r : r.by = by /\ r.op = "logout")

\* Who made the calls of the log.
Callers == { r.by : r \in BagToSet(calls) }

\* C11: every session opened is logged out exactly once, on every path
\* through createSubscription, getServerSubscriptions and
\* deleteSubscriptionFromServer: the only session ever open between two
\* steps is the one createSubscription holds from its connect to its return
\* (the sessions of the list and of the deletes are closed when those
\* return), a failed connect opens none, and when
\* CreateSubscriptionsForAllServers returns, on either path and with the
\* rollback done, every session opened has had its one logout.
C11_SessionsReleased ==
    /\ \A by \in Callers :
          OpenSessionsOf(by) =
             IF by.phase = "create" /\ wpc[by.w] \in {"list", "cleanup", "create"}
             THEN 1 ELSE 0
    /\ \A r \in BagToSet(calls) :
          r.op = "logout" => Reachable(r.to)
    /\ ret.returned =>
          \A a \in Addrs :
             Count(LAMBDA r : r.to = a /\ r.op = "connect" /\ r.ok)
             = Count(LAMBDA r : r.to = a /\ r.op = "logout")

\* A return on the failure path after sessions were closed on early error
\* returns (list, create, event service of a rollback delete) and on
\* successes.
C11_Witness ==
    /\ ReturnedError
    /\ \E j \in Workers :
          /\ cleanupErr[j] = "list"
          /\ err[j] = "create legacy"
    /\ \E k \in Addrs : rres[k] = "eventservice"
    /\ \E k \in Addrs : rres[k] = ""
    /\ Count(LAMBDA r : r.op = "logout") >= 5

\* C12: under fair scheduling of the goroutines, with every remote call
\* returning, every invocation of CreateSubscriptionsForAllServers returns,
\* on the success path and on the failure path with its rollback, with
\* every create worker and every delete worker finished: none is left
\* waiting for the lock, the channel or the barrier.
C12_EventuallyReturns ==
    <>( /\ ret.returned
        /\ \A i \in Workers : wpc[i] = "done"
        /\ \A k \in Addrs : rpc[k] \in {"none", "done"} )

\* A return on the failure path after two workers went through the lock and
\* the rollback ran its delete workers.
C12_Witness ==
    /\ ReturnedError
    /\ Cardinality(DOMAIN subscriptionMap) >= 2
    /\ \A k \in DOMAIN subscriptionMap : rpc[k] = "done"
    /\ Len(ret.errors) = 1

\* Every create worker has finished.
CreatePhaseOver == \A i \in Workers : wpc[i] = "done"

\* Calls made by the delete workers.
DeletePhaseCalls == Count(LAMBDA r : r.by.phase = "delete")

\* C13: the orchestrator evaluates success or failure only after every
\* create worker has finished; no compensating delete is launched, and no
\* call of one is made, while a create worker is still running; and the
\* return on the failure path comes only after every compensating delete
\* worker has finished.
C13_PhaseOrdering ==
    /\ pc \in {"decide", "deleting", "returned"} => CreatePhaseOver
    /\ ( \/ \E k \in Addrs : rpc[k] # "none"
         \/ DeletePhaseCalls > 0 ) => (CreatePhaseOver /\ pc \in {"deleting", "returned"})
    /\ ReturnedError =>
          /\ \A k \in Addrs : rpc[k] # "run"
          /\ \A k \in DOMAIN subscriptionMap : rpc[k] = "done"

\* The rollback under way: one delete worker has finished, another has not,
\* and the orchestrator waits.
C13_Witness ==
    /\ pc = "deleting"
    /\ CreatePhaseOver
    /\ \E k1, k2 \in Addrs : rpc[k1] = "run" /\ rpc[k2] = "done"

\* Line 163 has run: the orchestrator is past close(errChan).
errChanClosed == pc \in {"decide", "deleting", "returned"}

\* C14: the errors buffered never exceed the number of input servers; every
\* worker has sent at most one error (the errors sent are as many as the
\* workers that finished with one); a worker with an error to send is never
\* refused by the channel; and the channel is closed only when every worker
\* has finished, so no send meets a closed channel.
C14_NoWorkerBlocksOnChannel ==
    /\ Len(errChan) <= Len(redfishServers)
    /\ Len(errChan) + Len(allErrors) =
          Cardinality({ i \in Workers : wpc[i] = "done" /\ err[i] # "" })
    /\ \A i \in Workers : wpc[i] = "send" => ENABLED Worker_Send(i)
    /\ errChanClosed =>
          /\ \A i \in Workers : wpc[i] = "done"
          /\ errChan = << >>

\* Every worker of the longest list has sent its error and the channel,
\* still open, is full.
C14_Witness ==
    /\ pc = "wait"
    /\ Len(redfishServers) = MaxServers
    /\ Len(errChan) = Len(redfishServers)
    /\ \A i \in Workers : wpc[i] = "done"

\* Worker i is between mu.Lock() and mu.Unlock().
InInsert(i) == wpc[i] \in {"write", "unlock"}

\* C15: at most one create worker is inside the insert at any time and it
\* holds the lock; the map changes only in a step of the worker holding the
\* lock; no step that makes a remote call is taken by a worker holding the
\* lock; and the orchestrator reads the map (to roll back or to return it)
\* only when every worker has finished and the lock is free.
C15_MapWritesExclusive ==
    /\ [](Cardinality({ i \in Workers : InInsert(i) }) <= 1)
    /\ [](\A i \in Workers : InInsert(i) <=> mu = i)
    /\ [](pc \in {"decide", "deleting", "returned"} =>
             (mu = 0 /\ \A i \in Workers : wpc[i] = "done"))
    /\ [][ /\ subscriptionMap' # subscriptionMap =>
               /\ mu \in Workers
               /\ wpc[mu] = "write"
               /\ wpc'[mu] = "unlock"
               /\ mu' = mu
           /\ calls' # calls =>
               \A i \in Workers :
                  wpc'[i] # wpc[i] => (mu # i /\ mu' # i) ]_vars

\* One worker is at the insert, holding the lock, while another waits for
\* the lock and a third is still at its remote calls.
C15_Witness ==
    \E i, j, k \in Workers :
        /\ wpc[i] = "write"
        /\ mu = i
        /\ wpc[j] = "lock"
        /\ wpc[k] \in {"open", "list", "cleanup", "create"}

\* Calls of one kind made by create worker i.
CallsOf(i, op) ==
    Count(LAMBDA r : r.by = By("create", 0, i) /\ r.op = op)

\* Some worker other than i has failed, at its connect, in its cleanup or
\* at its create.
OtherFailed(i) ==
    \E j \in Workers \ {i} : err[j] # "" \/ cleanupErr[j] # ""

\* C16: whatever has failed on other servers, a create worker's next remote
\* step stays possible (nothing prevents or cancels it); and when the
\* orchestrator decides, every server of the list has had its attempt
\* started (its connect call made) and run to its own outcome, an error of
\* its own or the identifier its create call returned.
C16_FailuresIsolated ==
    /\ \A i \in Workers :
          /\ wpc[i] = "open" => ENABLED createSubscription_Open(i)
          /\ wpc[i] = "list" => ENABLED getServerSubscriptions(i)
          /\ wpc[i] = "cleanup" => ENABLED deleteConflictingSubscriptions(i)
          /\ wpc[i] = "create" => ENABLED createSubscription_Create(i)
    /\ pc \in {"decide", "deleting", "returned"} =>
          \A i \in Workers :
             /\ wpc[i] = "done"
             /\ CallsOf(i, "connect") >= 1
             /\ \/ err[i] \in {"connect", "eventservice"}
                      /\ CallsOf(i, "create") = 0
                \/ err[i] = "create legacy" /\ CallsOf(i, "create") = 1
                \/ err[i] = "" /\ Created(i, uri[i])

\* The orchestrator is about to decide: one server failed at its connect,
\* one failed in its cleanup and at its create, and one succeeded.
C16_Witness ==
    /\ pc = "decide"
    /\ \E i, j, k \in Workers :
          /\ err[i] = "connect"
          /\ cleanupErr[j] = "delete" /\ err[j] = "create legacy"
          /\ err[k] = "" /\ Created(k, uri[k]) /\ OtherFailed(k)

\* Calls a controller received from the delete workers.
DeletePhaseCallsTo(a) ==
    Count(LAMBDA r : r.by.phase = "delete" /\ r.to = a)

\* C17: every call of the rollback is made for an entry of the result map,
\* to the address of the entry, and a delete call carries the identifier of
\* the entry; a server whose create attempt failed is not contacted by the
\* rollback; and when no create attempt failed no delete worker is started
\* and no call of one is made.
C17_RollbackOnlyWhatWasCreated ==
    /\ \A r \in BagToSet(calls) :
          r.by.phase = "delete" =>
             /\ r.by.w \in DOMAIN subscriptionMap
             /\ r.to = r.by.w
             /\ r.op = "delete" => r.id = subscriptionMap[r.by.w]
             /\ \E i \in Workers :
                   redfishServers[i] = r.to /\ Created(i, subscriptionMap[r.to])
    /\ \A i \in Workers :
          err[i] # "" =>
             /\ DeletePhaseCallsTo(redfishServers[i]) = 0
             /\ rpc[redfishServers[i]] = "none"
    /\ (CreatePhaseOver /\ \A i \in Workers : err[i] = "") =>
          /\ DeletePhaseCalls = 0
          /\ \A k \in Addrs : rpc[k] = "none"

\* A return on the failure path: the one server that succeeded was contacted
\* by the rollback, the two that failed were not.
C17_Witness ==
    /\ ReturnedError
    /\ \E i, j, k \in Workers :
          /\ err[i] = "" /\ DeletePhaseCallsTo(redfishServers[i]) = 3
          /\ err[j] = "connect" /\ DeletePhaseCallsTo(redfishServers[j]) = 0
          /\ err[k] = "create legacy"
          /\ DeletePhaseCallsTo(redfishServers[k]) = 0

\* What the controllers held before CreateSubscriptionsForAllServers was
\* called: subsAfterFirst is set to the remote state at the start and changes
\* only when a caller's DeleteSubscriptionsFromAllServers returns, a step
\* Spec does not have.
subsBefore == subsAfterFirst

WithDestination(S, d) == { s \in S : s.Destination = d }

\* The conflict cleanup of worker i ran to its end: the listing succeeded
\* and every conflicting subscription listed was deleted.
CleanupRan(i) ==
    /\ Count(LAMBDA r : r.by = By("create", 0, i) /\ r.op = "list" /\ r.ok) = 1
    /\ cleanupErr[i] = ""
    /\ wpc[i] \in {"create", "send", "lock", "write", "unlock", "done"}

\* C18: a subscription the conflict cleanup removed stays removed; after a
\* return with an error where every delete of the rollback succeeded, a
\* server whose cleanup ran holds no subscription with the payload's
\* destination (not the earlier one, not the created one), and its
\* subscriptions with other destinations are those it held before the call.
C18_RollbackDoesNotRestore ==
    /\ \A a \in Addrs : \A id \in PreIds :
          CleanupDeletesIn(calls, a, id) > 0 /\ SuccessfulDeletes(a, id) > 0
          => ~Active(a, id)
    /\ (ReturnedError /\ \A k \in Addrs : rpc[k] = "done" => rres[k] = "") =>
          \A i \in Workers : CleanupRan(i) =>
             LET a == redfishServers[i]
                 d == subscriptionPayload.Destination
             IN  /\ WithDestination(subs[a], d) = {}
                 /\ subs[a] = subsBefore[a] \ WithDestination(subsBefore[a], d)

\* A return with an error after a server lost its earlier subscription to
\* the cleanup and its created one to the rollback.
C18_Witness ==
    /\ ReturnedError
    /\ \A k \in Addrs : rpc[k] = "done" => rres[k] = ""
    /\ \E i \in Workers :
          LET a == redfishServers[i]
          IN  /\ CleanupRan(i)
              /\ WithDestination(subsBefore[a],
                                 subscriptionPayload.Destination) # {}
              /\ Created(i, uri[i])
              /\ rres[a] = ""
              /\ subs[a] # {}
              /\ subs[a] # subsBefore[a]

\* How many descriptors of the list have the address a.
Occurrences(a) == Cardinality({ i \in Workers : redfishServers[i] = a })

\* C19 as stated: every identifier of the map returned by a successful call
\* is active on the server it is keyed by at the moment of return, also when
\* descriptors of the list share an address.
C19_ReturnedIdsActive ==
    ReturnedOk =>
        \A a \in DOMAIN ret.map : Active(a, ret.map[a])

\* C19, amended: every identifier of the map returned by a successful call
\* is one that a create call of this invocation returned on the server it is
\* keyed by; it is active there at the moment of return when one descriptor
\* of the list has that address (with two or more, the cleanup of one worker
\* may have deleted what another created and recorded).
C19_ReturnedIdsActiveUnlessShared ==
    ReturnedOk =>
        \A a \in DOMAIN ret.map :
            /\ \E i \in Workers :
                  redfishServers[i] = a /\ Created(i, ret.map[a])
            /\ Occurrences(a) = 1 => Active(a, ret.map[a])

\* A successful return for a list with a shared address: the entry of the
\* address of one descriptor is active, the entry of the shared address is
\* not.
C19_Witness ==
    /\ ReturnedOk
    /\ \E a, b \in DOMAIN ret.map :
          /\ Occurrences(a) = 1 /\ Active(a, ret.map[a])
          /\ Occurrences(b) = 2 /\ ~Active(b, ret.map[b])

====
